---- MODULE Spec2Model ----
(***************************************************************************)
(* The Observable (observer design pattern) of delphian/design-patterns,  *)
(* in its four iterations:                                                 *)
(*   part_000  src/unnamed/part_000  (typeExists, auto-creating subscribe) *)
(*   part_001  src/unnamed/part_001  (subscribe without auto-create)       *)
(*   part_002  src/unnamed/part_002  (message* names, prototype registry)  *)
(*   odp       src/observer-design-pattern.js (unguarded unsubscribe and   *)
(*             publish)                                                    *)
(* JavaScript is single threaded and every method is synchronous, so each  *)
(* method call is one atomic action.  The registry is a JavaScript Array   *)
(* used as a map: Array-index keys ("1") live in the array part and move   *)
(* `length`, every other key ("generic") is a plain named property.        *)
(* Message type names are ordinary own-property keys; names that an Array  *)
(* inherits from its prototype ("length", "push", ...) are outside the     *)
(* domain of this model.                                                   *)
(***************************************************************************)
EXTENDS Integers, Sequences, FiniteSets, TLC

\* Bound of the model: the number of subscriptions held by the registry.
MaxSubs == 3

Variants == {"part_000", "part_001", "part_002", "odp"}

\* Message type names the callers use: one named property, one array index.
NamedKeys == {"generic"}
IndexKeys == {"1"}
Keys == NamedKeys \cup IndexKeys
\* Published data, and the observed object handed to publish.
Data == {"hello"}
SourceObj == "sourceObj"

\* Subscriber functions, by identity.  A and A2 are different functions that
\* share the name "A"; B is named "B".
Callbacks == {"A", "B", "A2"}
\* Subscriber functions that call back into the observable they are
\* subscribed to (a part_000 observable) while publish is invoking them:
\* Once unsubscribes itself, KickB unsubscribes B, AddB subscribes B, each
\* from or to the message type it is invoked for.
ReentrantCallbacks == {"Once", "KickB", "AddB"}
FnName(callback) == IF callback = "A2" THEN "A" ELSE callback
FnReturn(callback) ==
    CASE callback = "A" -> "ok-A"
      [] callback = "B" -> "ok-B"
      [] callback = "A2" -> "ok-A2"
      [] callback = "Once" -> "ok-Once"
      [] callback = "KickB" -> "ok-KickB"
      [] callback = "AddB" -> "ok-AddB"
\* String(callback): the function's source text, the key part_002 stores under.
FnSource(callback) ==
    CASE callback = "A" -> "function A() { return 'ok-A'; }"
      [] callback = "B" -> "function B() { return 'ok-B'; }"
      [] callback = "A2" -> "function A() { return 'ok-A2'; }"

----------------------------------------------------------------------------
(* JavaScript values of the registry: undefined, or an array of callbacks. *)
Undefined == [def |-> FALSE, list |-> <<>>]
ArrayOf(s) == [def |-> TRUE, list |-> s]
EmptyArray == ArrayOf(<<>>)

\* The array index a canonical numeric key denotes.
ArrayIndex(key) == CASE key = "1" -> 1

\* `this.subscribers = []`: no elements, length 0, no named properties.
NewSubscribers == [arr |-> <<>>, props |-> [k \in NamedKeys |-> Undefined]]

\* subs.length
Length(subs) == Len(subs.arr)

\* subs[i] for a number i
GetIndex(subs, i) == IF i < Len(subs.arr) THEN subs.arr[i + 1] ELSE Undefined

\* subs[key]
Get(subs, key) ==
    IF key \in IndexKeys THEN GetIndex(subs, ArrayIndex(key))
    ELSE IF key \in NamedKeys THEN subs.props[key]
    ELSE Undefined

\* subs[key] = value: an index at or past length grows the array with holes.
Put(subs, key, value) ==
    IF key \in IndexKeys
    THEN LET i == ArrayIndex(key)
             n == IF i < Len(subs.arr) THEN Len(subs.arr) ELSE i + 1
         IN [subs EXCEPT !.arr = [j \in 1..n |->
                IF j = i + 1 THEN value
                ELSE IF j <= Len(subs.arr) THEN subs.arr[j] ELSE Undefined]]
    ELSE [subs EXCEPT !.props[key] = value]

\* key in subs: an own property is present (a hole is not).
HasProperty(key, subs) == Get(subs, key).def

\* typeof(value) != 'undefined'
IsDefined(value) == value.def

\* list.splice(i, 1) on a sequence, i counted from 0.
Splice(list, i) == SubSeq(list, 1, i) \o SubSeq(list, i + 2, Len(list))

\* value === messageType, for a registry value (undefined or an Array object)
\* against a message type name (a string): operands of different types are
\* never strictly equal.
TypeOf(value) == IF value.def THEN "object" ELSE "undefined"
StrictEqualsName(value, messageType) ==
    TypeOf(value) = "string" /\ value = messageType

\* What a method call leaves behind: the registry, whether it threw a
\* TypeError, its return value and the callbacks it invoked.
RetUndefined == [kind |-> "undefined", entries |-> {}]
RetFalse == [kind |-> "false", entries |-> {}]
RetTrue == [kind |-> "true", entries |-> {}]
RetObject(result) == [kind |-> "object", entries |-> result]
Returned(subs, ret) == [subs |-> subs, threw |-> FALSE, ret |-> ret, calls |-> <<>>]
Threw(subs) == [subs |-> subs, threw |-> TRUE, ret |-> RetUndefined, calls |-> <<>>]

----------------------------------------------------------------------------
\* typeAdd that leaves an existing type alone.
typeAdd_keepExisting(subs, messageType) ==
    IF IsDefined(Get(subs, messageType)) THEN Returned(subs, RetUndefined)
    ELSE Returned(Put(subs, messageType, EmptyArray), RetUndefined)

\* typeAdd that starts the whole registry afresh (this.subscribers = [])
\* before adding the type.
typeAdd_resetRegistry(subs, messageType) ==
    Returned(Put(NewSubscribers, messageType, EmptyArray), RetUndefined)

(* part_000 / part_001: typeAdd *)
typeAdd(subs, messageType) ==
    Returned(Put(subs, messageType, EmptyArray), RetUndefined)

\* typeRemove as this.subscribers.splice(messageType, 1): the name is
\* converted to an integer (0 unless it is numeric) and the array element
\* at that index is removed.
typeRemoveLoop_spliceByName(subs, messageType, i, len) ==
    LET index == IF messageType \in IndexKeys THEN ArrayIndex(messageType) ELSE 0
    IN  IF index < len
        THEN [subs EXCEPT !.arr = Splice(subs.arr, index)]
        ELSE subs

(* part_000 / part_001: typeRemove.  The loop runs over the registry's own *)
(* array part and compares each element with the name.                     *)
RECURSIVE typeRemoveLoop(_, _, _, _)
typeRemoveLoop(subs, messageType, i, len) ==
    IF i >= len THEN subs
    ELSE IF StrictEqualsName(GetIndex(subs, i), messageType)
         THEN [subs EXCEPT !.arr = Splice(subs.arr, i)]
         ELSE typeRemoveLoop(subs, messageType, i + 1, len)

typeRemove(subs, messageType) ==
    Returned(typeRemoveLoop(subs, messageType, 0, Length(subs)), RetUndefined)

\* typeExists with `exists` starting out true.
typeExists_startTrue(subs, messageType) ==
    Returned(subs, RetTrue)

(* part_000: typeExists *)
typeExists(subs, messageType) ==
    Returned(subs, IF IsDefined(Get(subs, messageType)) THEN RetTrue ELSE RetFalse)

\* Push, inserting at the head of the list (unshift for push).
Push_unshift(subs, messageType, callback) ==
    Put(subs, messageType, ArrayOf(<<callback>> \o Get(subs, messageType).list))

\* Push, skipping a callback the list already holds.
Push_dedupe(subs, messageType, callback) ==
    LET list == Get(subs, messageType).list
    IN  IF \E j \in 1..Len(list) : list[j] = callback
        THEN subs
        ELSE Put(subs, messageType, ArrayOf(Append(list, callback)))

\* list.push(callback)
Push(subs, messageType, callback) ==
    Put(subs, messageType, ArrayOf(Append(Get(subs, messageType).list, callback)))

\* subscribe without the automatic typeAdd (the subscribe of part_001).
subscribe_noAutoAdd(subs, messageType, callback) ==
    IF ~IsDefined(Get(subs, messageType)) THEN Threw(subs)
    ELSE Returned(Push(subs, messageType, callback), RetUndefined)

(* part_000: subscribe, which adds a missing message type first *)
subscribe(subs, messageType, callback) ==
    LET added == IF typeExists(subs, messageType).ret # RetTrue
                 THEN typeAdd(subs, messageType).subs
                 ELSE subs
    IN  Returned(Push(added, messageType, callback), RetUndefined)

(* part_001: subscribe.  On a missing type subscribers[messageType] is     *)
(* undefined and `.push` raises a TypeError.                               *)
subscribe_001(subs, messageType, callback) ==
    IF ~IsDefined(Get(subs, messageType)) THEN Threw(subs)
    ELSE Returned(Push(subs, messageType, callback), RetUndefined)

\* unsubscribeLoop without the early return: every match is spliced out
\* and the scan goes on.
RECURSIVE unsubscribeLoop_noReturn(_, _, _, _)
unsubscribeLoop_noReturn(list, callback, i, len) ==
    IF i >= len THEN list
    ELSE IF i < Len(list) /\ list[i + 1] = callback
         THEN unsubscribeLoop_noReturn(Splice(list, i), callback, i + 1, len)
         ELSE unsubscribeLoop_noReturn(list, callback, i + 1, len)

(* part_000 / part_001: unsubscribe.  len is read once, before the loop.   *)
RECURSIVE unsubscribeLoop(_, _, _, _)
unsubscribeLoop(list, callback, i, len) ==
    IF i >= len THEN list
    ELSE IF i < Len(list) /\ list[i + 1] = callback
         THEN Splice(list, i)
         ELSE unsubscribeLoop(list, callback, i + 1, len)

unsubscribe(subs, messageType, callback) ==
    IF HasProperty(messageType, subs)
    THEN LET list == Get(subs, messageType).list
         IN  Returned(Put(subs, messageType,
                          ArrayOf(unsubscribeLoop(list, callback, 0, Len(list)))),
                      RetUndefined)
    ELSE Returned(subs, RetUndefined)

\* The number of subscriptions in the registry.
TotalSubs(subs) ==
    Len(Get(subs, "generic").list) + Len(Get(subs, "1").list)

\* What invoking callback for messageType does to the registry.  A, B and
\* A2 only return a value.  AddB stops subscribing once the registry holds
\* more than MaxSubs subscriptions.
CallbackEffect(callback, subs, messageType) ==
    CASE callback = "Once" -> unsubscribe(subs, messageType, "Once").subs
      [] callback = "KickB" -> unsubscribe(subs, messageType, "B").subs
      [] callback = "AddB" ->
            IF TotalSubs(subs) <= MaxSubs
            THEN subscribe(subs, messageType, "B").subs
            ELSE subs
      [] OTHER -> subs

\* result[key] = value on a plain object: one entry per key.
ObjectSet(result, key, value) ==
    {e \in result : e[1] # key} \cup {<<key, value>>}

\* One invocation callback(data, messageType, observed, result), as the
\* callback sees it.
Invocation(callback, data, messageType, observed, result) ==
    [cb |-> callback, data |-> data, type |-> messageType,
     observed |-> observed, soFar |-> result]

\* publishLoop storing under result[callback] (the function's source text)
\* instead of result[callback.name].
RECURSIVE publishLoop_keyByFunction(_, _, _, _, _, _, _)
publishLoop_keyByFunction(subs, data, messageType, observed, i, len, acc) ==
    IF i >= len THEN [acc EXCEPT !.subs = subs]
    ELSE LET list == Get(subs, messageType).list
         IN  IF i >= Len(list) THEN [acc EXCEPT !.threw = TRUE, !.subs = subs]
             ELSE LET callback == list[i + 1]
                  IN  publishLoop_keyByFunction(CallbackEffect(callback, subs, messageType),
                        data, messageType, observed,
                        i + 1, len,
                        [result |-> ObjectSet(acc.result, FnSource(callback),
                                              FnReturn(callback)),
                         calls |-> Append(acc.calls,
                                     Invocation(callback, data, messageType,
                                                observed, acc.result)),
                         threw |-> FALSE, subs |-> subs])

\* publishLoop calling callback(data, messageType, observed), with no
\* fourth argument.
RECURSIVE publishLoop_noResultArgument(_, _, _, _, _, _, _)
publishLoop_noResultArgument(subs, data, messageType, observed, i, len, acc) ==
    IF i >= len THEN [acc EXCEPT !.subs = subs]
    ELSE LET list == Get(subs, messageType).list
         IN  IF i >= Len(list) THEN [acc EXCEPT !.threw = TRUE, !.subs = subs]
             ELSE LET callback == list[i + 1]
                  IN  publishLoop_noResultArgument(CallbackEffect(callback, subs, messageType),
                        data, messageType, observed, i + 1, len,
                        [result |-> ObjectSet(acc.result, FnName(callback),
                                              FnReturn(callback)),
                         calls |-> Append(acc.calls,
                                     Invocation(callback, data, messageType,
                                                observed, {})),
                         threw |-> FALSE, subs |-> subs])

(* part_000 / part_001: publish(data, messageType, observed).  len is read  *)
(* once, before the loop; each iteration reads the list as the callbacks   *)
(* invoked so far have left it.  An index past the end of the list reads   *)
(* undefined, and `callback.name` raises a TypeError.                      *)
RECURSIVE publishLoop(_, _, _, _, _, _, _)
publishLoop(subs, data, messageType, observed, i, len, acc) ==
    IF i >= len THEN [acc EXCEPT !.subs = subs]
    ELSE LET list == Get(subs, messageType).list
         IN  IF i >= Len(list) THEN [acc EXCEPT !.threw = TRUE, !.subs = subs]
             ELSE LET callback == list[i + 1]
                  IN  publishLoop(CallbackEffect(callback, subs, messageType),
                        data, messageType, observed, i + 1, len,
                        [result |-> ObjectSet(acc.result, FnName(callback),
                                              FnReturn(callback)),
                         calls |-> Append(acc.calls,
                                     Invocation(callback, data, messageType,
                                                observed, acc.result)),
                         threw |-> FALSE, subs |-> subs])

\* publish returning the result object whether or not it has keys.
publish_noFalse(subs, data, messageType, observed) ==
    LET start == [result |-> {}, calls |-> <<>>, threw |-> FALSE, subs |-> subs]
        done == IF HasProperty(messageType, subs)
                THEN publishLoop(subs, data, messageType, observed, 0,
                                 Len(Get(subs, messageType).list), start)
                ELSE start
    IN  [subs |-> done.subs, threw |-> done.threw, calls |-> done.calls,
         ret |-> IF done.threw THEN RetUndefined ELSE RetObject(done.result)]

publish(subs, data, messageType, observed) ==
    LET start == [result |-> {}, calls |-> <<>>, threw |-> FALSE, subs |-> subs]
        done == IF HasProperty(messageType, subs)
                THEN publishLoop(subs, data, messageType, observed, 0,
                                 Len(Get(subs, messageType).list), start)
                ELSE start
    IN  [subs |-> done.subs, threw |-> done.threw, calls |-> done.calls,
         ret |-> IF done.threw THEN RetUndefined
                 ELSE IF Cardinality(done.result) # 0 THEN RetObject(done.result)
                 ELSE RetFalse]

----------------------------------------------------------------------------
(* part_002: the registry lives on Observable.prototype; the methods are   *)
(* those of part_001 under message* names, except messagePublish.          *)
messageTypeAdd(subs, messageType) ==
    Returned(Put(subs, messageType, EmptyArray), RetUndefined)

messageTypeRemove(subs, messageType) ==
    Returned(typeRemoveLoop(subs, messageType, 0, Length(subs)), RetUndefined)

messageSubscribe(subs, messageType, callback) ==
    IF ~IsDefined(Get(subs, messageType)) THEN Threw(subs)
    ELSE Returned(Push(subs, messageType, callback), RetUndefined)

messageUnsubscribe(subs, messageType, callback) ==
    IF HasProperty(messageType, subs)
    THEN LET list == Get(subs, messageType).list
         IN  Returned(Put(subs, messageType,
                          ArrayOf(unsubscribeLoop(list, callback, 0, Len(list)))),
                      RetUndefined)
    ELSE Returned(subs, RetUndefined)

\* `var result = []`, then result[callback] = value: the key is the
\* function's source text, never an array index, so it becomes a named
\* property and result.length stays as it is.
NewResultArray == [length |-> 0, entries |-> {}]
ResultArraySet(result, callback, value) ==
    [result EXCEPT !.entries = ObjectSet(@, FnSource(callback), value)]

(* part_002: messagePublish(messageType, data, observed) *)
RECURSIVE messagePublishLoop(_, _, _, _, _, _, _)
messagePublishLoop(subs, messageType, data, observed, i, len, acc) ==
    IF i >= len THEN acc
    ELSE LET list == Get(subs, messageType).list
         IN  IF i >= Len(list) THEN [acc EXCEPT !.threw = TRUE]
             ELSE LET callback == list[i + 1]
                  IN  messagePublishLoop(subs, messageType, data, observed, i + 1, len,
                        [result |-> ResultArraySet(acc.result, callback,
                                                   FnReturn(callback)),
                         calls |-> Append(acc.calls,
                                     Invocation(callback, data, messageType,
                                                observed, acc.result.entries)),
                         threw |-> FALSE])

messagePublish(subs, messageType, data, observed) ==
    LET start == [result |-> NewResultArray, calls |-> <<>>, threw |-> FALSE]
        done == IF HasProperty(messageType, subs)
                THEN messagePublishLoop(subs, messageType, data, observed, 0,
                                        Len(Get(subs, messageType).list), start)
                ELSE start
    IN  [subs |-> subs, threw |-> done.threw, calls |-> done.calls,
         ret |-> IF done.threw THEN RetUndefined
                 ELSE IF done.result.length # 0 THEN RetObject(done.result.entries)
                 ELSE RetFalse]

----------------------------------------------------------------------------
(* observer-design-pattern.js: messageTypeAdd, messageTypeRemove and       *)
(* messageSubscribe are those of part_002; messageUnsubscribe and          *)
(* messagePublish read subscribers[messageType].length with no guard.      *)
odp_messageUnsubscribe(subs, messageType, callback) ==
    IF ~IsDefined(Get(subs, messageType)) THEN Threw(subs)
    ELSE LET list == Get(subs, messageType).list
         IN  Returned(Put(subs, messageType,
                          ArrayOf(unsubscribeLoop(list, callback, 0, Len(list)))),
                      RetUndefined)

\* The callback is called as callback(data, messageType); its return value
\* is dropped.
RECURSIVE odp_messagePublishLoop(_, _, _, _, _, _)
odp_messagePublishLoop(subs, messageType, data, i, len, acc) ==
    IF i >= len THEN acc
    ELSE LET list == Get(subs, messageType).list
         IN  IF i >= Len(list) THEN [acc EXCEPT !.threw = TRUE]
             ELSE odp_messagePublishLoop(subs, messageType, data, i + 1, len,
                    [acc EXCEPT !.calls = Append(@,
                        Invocation(list[i + 1], data, messageType, "undefined", {}))])

odp_messagePublish(subs, messageType, data) ==
    IF ~IsDefined(Get(subs, messageType)) THEN Threw(subs)
    ELSE LET done == odp_messagePublishLoop(subs, messageType, data, 0,
                        Len(Get(subs, messageType).list),
                        [calls |-> <<>>, threw |-> FALSE])
         IN  [subs |-> subs, threw |-> done.threw, calls |-> done.calls,
              ret |-> RetUndefined]

----------------------------------------------------------------------------
(* The state: which iteration of Observable is loaded, the registry        *)
(* `subscribers` of the observable, and the last method call as its caller *)
(* saw it.  subscribeLog and everRegistered are history variables.         *)
VARIABLES
    variant,        \* the source file under test
    subscribers,    \* this.subscribers
    last,           \* the last call: method, arguments, outcome
    subscribeLog,   \* per type: the callbacks given to subscribe, in call
                    \* order, while subscribe is all that was called on the
                    \* type since it was created (clean)
    everRegistered, \* the types that typeAdd or an auto-create was called for
    second          \* a second instance of Observable: whether it has been
                    \* constructed, and its own `subscribers` property

vars == <<variant, subscribers, last, subscribeLog, everRegistered, second>>

AutoCreates == variant = "part_000"
MessageNames == variant \in {"part_002", "odp"}

NoCallback == "none"
NoType == "none"

Call(op, args, messageType, callback, r) ==
    /\ subscribers' = r.subs
    /\ last' = [op |-> op, args |-> args, type |-> messageType, cb |-> callback,
                before |-> Get(subscribers, messageType),
                threw |-> r.threw, ret |-> r.ret, calls |-> r.calls]
    /\ UNCHANGED <<variant, second>>

\* No second instance yet.
NoInstance == [live |-> FALSE, hasOwn |-> FALSE, own |-> NewSubscribers]

\* new Observable(): the constructor of part_000 and part_001 assigns
\* this.subscribers = [], an own property of the new object; the
\* constructor of part_002 and odp is empty, and `subscribers: []` is a
\* property of Observable.prototype, evaluated once.
Construct ==
    IF MessageNames
    THEN [live |-> TRUE, hasOwn |-> FALSE, own |-> NewSubscribers]
    ELSE [live |-> TRUE, hasOwn |-> TRUE, own |-> NewSubscribers]

\* inst.subscribers: the instance's own property when it has one, else the
\* property found on Observable.prototype, the array that every method of
\* part_002 and odp reads and writes as this.subscribers.
SubscribersOf(inst, prototypeSubscribers) ==
    IF inst.hasOwn THEN inst.own ELSE prototypeSubscribers

CleanLog == [clean |-> TRUE, order |-> <<>>]
TaintedLog == [clean |-> FALSE, order |-> <<>>]

Init ==
    /\ variant \in Variants
    /\ subscribers = NewSubscribers
    /\ last = [op |-> "new", args |-> <<>>, type |-> NoType, cb |-> NoCallback,
               before |-> Undefined, threw |-> FALSE, ret |-> RetUndefined,
               calls |-> <<>>]
    /\ subscribeLog = [t \in Keys |-> CleanLog]
    /\ everRegistered = {}
    /\ second = NoInstance

TypeAdd ==
    \E t \in Keys :
        /\ Call("typeAdd", <<t>>, t, NoCallback,
                IF MessageNames THEN messageTypeAdd(subscribers, t)
                ELSE typeAdd(subscribers, t))
        /\ subscribeLog' = [subscribeLog EXCEPT ![t] = CleanLog]
        /\ everRegistered' = everRegistered \cup {t}

TypeRemove ==
    \E t \in Keys :
        /\ Call("typeRemove", <<t>>, t, NoCallback,
                IF MessageNames THEN messageTypeRemove(subscribers, t)
                ELSE typeRemove(subscribers, t))
        /\ subscribeLog' = [subscribeLog EXCEPT ![t] = TaintedLog]
        /\ UNCHANGED everRegistered

TypeExists ==
    \E t \in Keys :
        /\ variant = "part_000"
        /\ Call("typeExists", <<t>>, t, NoCallback, typeExists(subscribers, t))
        /\ UNCHANGED <<subscribeLog, everRegistered>>

SubscribeOf(fns) ==
    \E t \in Keys, cb \in fns :
        /\ TotalSubs(subscribers) < MaxSubs
        /\ LET r == CASE variant = "part_000" -> subscribe(subscribers, t, cb)
                      [] variant = "part_001" -> subscribe_001(subscribers, t, cb)
                      [] OTHER -> messageSubscribe(subscribers, t, cb)
           IN  /\ Call("subscribe", <<t, cb>>, t, cb, r)
               /\ subscribeLog' =
                    IF ~r.threw /\ subscribeLog[t].clean
                    THEN [subscribeLog EXCEPT ![t].order = Append(@, cb)]
                    ELSE subscribeLog
               /\ everRegistered' =
                    IF AutoCreates THEN everRegistered \cup {t} ELSE everRegistered

Subscribe == SubscribeOf(Callbacks)

UnsubscribeOf(fns) ==
    \E t \in Keys, cb \in fns :
        /\ Call("unsubscribe", <<t, cb>>, t, cb,
                CASE variant \in {"part_000", "part_001"} ->
                        unsubscribe(subscribers, t, cb)
                  [] variant = "part_002" -> messageUnsubscribe(subscribers, t, cb)
                  [] OTHER -> odp_messageUnsubscribe(subscribers, t, cb))
        /\ subscribeLog' = [subscribeLog EXCEPT ![t] = TaintedLog]
        /\ UNCHANGED everRegistered

Unsubscribe == UnsubscribeOf(Callbacks)

\* The call o.publish(a1, a2, sourceObj) (messagePublish in part_002 and
\* odp) with a message type and a datum, in either order: part_000 and
\* part_001 take the data first and the message type second, part_002 and
\* odp the message type first.
Publish ==
    \E t \in Keys, d \in Data, typeFirst \in BOOLEAN :
        LET a1 == IF typeFirst THEN t ELSE d
            a2 == IF typeFirst THEN d ELSE t
        IN  /\ CASE variant \in {"part_000", "part_001"} ->
                        Call("publish", <<a1, a2, SourceObj>>, a2, NoCallback,
                             publish(subscribers, a1, a2, SourceObj))
                 [] variant = "part_002" ->
                        Call("publish", <<a1, a2, SourceObj>>, a1, NoCallback,
                             messagePublish(subscribers, a1, a2, SourceObj))
                 [] OTHER ->
                        Call("publish", <<a1, a2, SourceObj>>, a1, NoCallback,
                             odp_messagePublish(subscribers, a1, a2))
            /\ subscribeLog' =
                    [k \in Keys |->
                        IF Get(subscribers', k) = Get(subscribers, k)
                        THEN subscribeLog[k] ELSE TaintedLog]
            /\ UNCHANGED everRegistered

\* The call o.messageSubscribe(Observer, 'generic') of the usage example in
\* the class comment of part_002 and observer-design-pattern.js: the
\* function comes first, so it is bound to messageType (and names the
\* property String(Observer)) and the type name is bound to callback.
SubscribeAsDocumented ==
    \E t \in Keys, cb \in Callbacks :
        /\ MessageNames
        /\ Call("subscribe", <<cb, t>>, FnSource(cb), t,
                messageSubscribe(subscribers, FnSource(cb), t))
        /\ UNCHANGED <<subscribeLog, everRegistered>>

Next ==
    \/ TypeAdd
    \/ TypeRemove
    \/ TypeExists
    \/ Subscribe
    \/ SubscribeAsDocumented
    \/ Unsubscribe
    \/ Publish

Spec == Init /\ [][Next]_vars

----------------------------------------------------------------------------
(* Two instances: the observable above, whose methods are called, and a    *)
(* second one constructed at any moment and otherwise left alone.          *)
NewSecond ==
    /\ ~second.live
    /\ second' = Construct
    /\ last' = [op |-> "new", args |-> <<>>, type |-> NoType, cb |-> NoCallback,
                before |-> Undefined, threw |-> FALSE, ret |-> RetUndefined,
                calls |-> <<>>]
    /\ UNCHANGED <<variant, subscribers, subscribeLog, everRegistered>>

NextInstances ==
    \/ Next
    \/ NewSecond

SpecInstances == Init /\ [][NextInstances]_vars

----------------------------------------------------------------------------
(* Reentrant use of a part_000 observable: some of its subscribers call    *)
(* subscribe or unsubscribe on it while publish is invoking them.  A       *)
(* publish is still one step: the callbacks run inside it, to completion,  *)
(* in the single thread that called publish.                               *)
ReentrantUse == {"A", "B"} \cup ReentrantCallbacks

InitReentrant ==
    /\ Init
    /\ variant = "part_000"

SubscribeReentrant == SubscribeOf(ReentrantUse)

UnsubscribeReentrant == UnsubscribeOf(ReentrantUse)

NextReentrant ==
    \/ TypeAdd
    \/ TypeRemove
    \/ TypeExists
    \/ SubscribeReentrant
    \/ UnsubscribeReentrant
    \/ Publish

SpecReentrant == InitReentrant /\ [][NextReentrant]_vars

----------------------------------------------------------------------------
(* Properties.  `last` describes the call just made and `subscribers` the  *)
(* registry it left, so most claims are invariants.                        *)

\* The callbacks a call invoked, in invocation order.
CallbackSeq(calls) == [j \in 1..Len(calls) |-> calls[j].cb]
\* The number of occurrences of x in a sequence.
Count(seq, x) == Cardinality({j \in 1..Len(seq) : seq[j] = x})
Distinct(seq) == \A j, k \in 1..Len(seq) : j # k => seq[j] # seq[k]
ListOf(t) == Get(subscribers, t).list

\* C1: in part_000, when n >= 1 distinct callbacks have been subscribed to a
\* type T (and nothing else was called on T), a publish on T completes and
\* invokes exactly those n callbacks, once each, in the order of the
\* subscribe calls.
C1_PublishInSubscribeOrder ==
    (/\ variant = "part_000"
     /\ last.op = "publish"
     /\ last.type \in Keys
     /\ subscribeLog[last.type].clean
     /\ Len(subscribeLog[last.type].order) >= 1
     /\ Distinct(subscribeLog[last.type].order))
    => (/\ ~last.threw
        /\ CallbackSeq(last.calls) = subscribeLog[last.type].order)

C1_Witness ==
    /\ variant = "part_000"
    /\ last.op = "publish"
    /\ last.type = "generic"
    /\ subscribeLog["generic"].clean
    /\ subscribeLog["generic"].order = <<"B", "A2", "A">>
    /\ CallbackSeq(last.calls) = <<"B", "A2", "A">>

\* The list without its first element equal to callback; the list itself
\* when it holds none.
RemoveFirstOccurrence(list, callback) ==
    IF \A j \in 1..Len(list) : list[j] # callback THEN list
    ELSE LET k == CHOOSE j \in 1..Len(list) :
                    /\ list[j] = callback
                    /\ \A h \in 1..(j - 1) : list[h] # callback
         IN  [j \in 1..(Len(list) - 1) |-> IF j < k THEN list[j] ELSE list[j + 1]]

\* C2: in part_000, unsubscribe(T, cb) on a registered type T leaves T's
\* sequence as it was less its first element identical to cb (one element
\* shorter when cb was subscribed), and a publish on T that follows invokes
\* exactly the remaining subscribers, in their original relative order.
C2_UnsubscribeRemovesFirstOccurrence ==
    [][/\ (variant = "part_000" /\ last'.op = "unsubscribe"
             /\ HasProperty(last'.type, subscribers))
          => (/\ ~last'.threw
              /\ Get(subscribers', last'.type).list =
                    RemoveFirstOccurrence(Get(subscribers, last'.type).list, last'.cb)
              /\ (Count(Get(subscribers, last'.type).list, last'.cb) > 0
                    => Len(Get(subscribers', last'.type).list) =
                          Len(Get(subscribers, last'.type).list) - 1)
              /\ \A u \in Keys \ {last'.type} :
                    Get(subscribers', u) = Get(subscribers, u))
       /\ (variant = "part_000" /\ last.op = "unsubscribe" /\ last.before.def
             /\ last'.op = "publish" /\ last'.type = last.type)
          => (/\ ~last'.threw
              /\ CallbackSeq(last'.calls) =
                    RemoveFirstOccurrence(last.before.list, last.cb))]_vars

C2_Witness ==
    /\ variant = "part_000"
    /\ last.op = "unsubscribe"
    /\ last.type = "generic"
    /\ last.cb = "A"
    /\ last.before = ArrayOf(<<"B", "A", "A">>)
    /\ ListOf("generic") = <<"B", "A">>

ResultFor(list) == {<<FnName(list[j]), FnReturn(list[j])>> : j \in 1..Len(list)}
DistinctNames(list) ==
    \A j, k \in 1..Len(list) : j # k => FnName(list[j]) # FnName(list[k])

C5_TypeRemoveRemoves ==
    (/\ variant = "part_000"
     /\ last.op = "typeRemove"
     /\ last.before.def)
    => (/\ ~last.threw
        /\ typeExists(subscribers, last.type).ret = RetFalse
        /\ publish(subscribers, "hello", last.type, SourceObj).calls = <<>>
        /\ publish(subscribers, "hello", last.type, SourceObj).ret = RetFalse)

PublishOn(t) ==
    CASE variant \in {"part_000", "part_001"} ->
            publish(subscribers, "hello", t, SourceObj)
      [] variant = "part_002" -> messagePublish(subscribers, t, "hello", SourceObj)
      [] OTHER -> odp_messagePublish(subscribers, t, "hello")

\* C7: in part_000 and part_002, typeAdd(T) (messageTypeAdd) on a type that
\* already exists leaves T with an empty subscriber sequence: the callbacks
\* subscribed before are dropped, and a publish on T that follows invokes
\* none of them and returns false.
C7_TypeAddResetsExistingType ==
    (/\ variant \in {"part_000", "part_002"}
     /\ last.op = "typeAdd"
     /\ last.before.def)
    => (/\ ~last.threw
        /\ HasProperty(last.type, subscribers)
        /\ ListOf(last.type) = <<>>
        /\ PublishOn(last.type).calls = <<>>
        /\ PublishOn(last.type).ret = RetFalse
        /\ ~PublishOn(last.type).threw)

C7_Witness ==
    /\ variant = "part_000"
    /\ last.op = "typeAdd"
    /\ last.type = "generic"
    /\ last.before = ArrayOf(<<"A", "B">>)
    /\ ListOf("generic") = <<>>

C9_NoDeduplication ==
    variant = "part_000"
    => \A t \in Keys : \A cb \in Callbacks :
          subscribeLog[t].clean
          => (/\ Count(ListOf(t), cb) = Count(subscribeLog[t].order, cb)
              /\ (last.op = "publish" /\ last.type = t)
                  => (/\ ~last.threw
                      /\ Count(CallbackSeq(last.calls), cb) =
                            Count(subscribeLog[t].order, cb)))

C9_Witness ==
    /\ variant = "part_000"
    /\ last.op = "publish"
    /\ last.type = "generic"
    /\ subscribeLog["generic"].clean
    /\ subscribeLog["generic"].order = <<"A", "B", "A">>
    /\ Count(CallbackSeq(last.calls), "A") = 2

\* C10 as stated: every operation of every variant, on every message type
\* name, registered or not, completes without raising an error.
C10_AllOperationsTotal ==
    ~last.threw

\* C12 as stated: in part_002, messagePublish returns false only if no
\* observer responded; whenever it invokes at least one subscriber it
\* returns a result object that holds that subscriber's return value.
C12_MessagePublishReturnsResults ==
    (/\ variant = "part_002"
     /\ last.op = "publish"
     /\ ~last.threw
     /\ Len(last.calls) >= 1)
    => (/\ last.ret.kind = "object"
        /\ \A j \in 1..Len(last.calls) :
              \E e \in last.ret.entries : e[2] = FnReturn(last.calls[j].cb))

\* C13 as stated: following the usage example of observer-design-pattern.js
\* as written, new Observable(); messageTypeAdd('generic');
\* messageSubscribe(Observer, 'generic'); messagePublish('generic', data),
\* every call completes without error (and Observer is then invoked once).
\* Here: the example's messageSubscribe call, made once 'generic' is added,
\* does not throw.
C13_DocumentedExampleRuns ==
    (/\ variant = "odp"
     /\ last.op = "subscribe"
     /\ last.args = <<"A", "generic">>
     /\ "generic" \in everRegistered)
    => ~last.threw

\* The return values of the first n invocations of a call.
ReturnValues(calls, n) == {FnReturn(calls[j].cb) : j \in 1..n}
\* The results of the first n invocations, by callback name: under each
\* name the return value of the latest invocation of a callback so named.
ResultsByName(calls, n) ==
    {<<FnName(calls[j].cb), FnReturn(calls[j].cb)>> :
        j \in {j \in 1..n :
                \A h \in (j + 1)..n : FnName(calls[h].cb) # FnName(calls[j].cb)}}

\* C15 as stated: in part_000, the k-th subscriber a publish invokes
\* receives as fourth argument a mapping that holds exactly the return
\* values of the k-1 subscribers invoked before it in this publish.
C15_Original ==
    (variant = "part_000" /\ last.op = "publish")
    => \A k \in 1..Len(last.calls) :
          {e[2] : e \in last.calls[k].soFar} = ReturnValues(last.calls, k - 1)

\* C15 amended: in part_000, the k-th subscriber a publish on T invokes
\* receives (data, T, observed, results so far), and at its invocation the
\* results hold, under each name of the k-1 subscribers invoked before it
\* in this publish, the return value of the latest of them with that name:
\* exactly their k-1 return values when their names are pairwise distinct,
\* nothing for the first subscriber, and nothing from later subscribers or
\* from earlier publishes.
C15_ResultsSoFarByName ==
    (variant = "part_000" /\ last.op = "publish")
    => \A k \in 1..Len(last.calls) :
          /\ last.calls[k].type = last.type
          /\ last.calls[k].data = last.args[1]
          /\ last.calls[k].observed = SourceObj
          /\ last.calls[k].soFar = ResultsByName(last.calls, k - 1)
          /\ k = 1 => last.calls[k].soFar = {}
          /\ DistinctNames(SubSeq(CallbackSeq(last.calls), 1, k - 1))
              => (/\ {e[2] : e \in last.calls[k].soFar} =
                        ReturnValues(last.calls, k - 1)
                  /\ Cardinality(last.calls[k].soFar) = k - 1)

C15_Witness ==
    /\ variant = "part_000"
    /\ last.op = "publish"
    /\ CallbackSeq(last.calls) = <<"A", "B", "A2">>
    /\ last.calls[3].soFar = {<<"A", "ok-A">>, <<"B", "ok-B">>}

C17_TypeRemoveIdempotent ==
    (variant = "part_000" /\ last.op = "typeRemove")
    => (/\ ~last.threw
        /\ ~typeRemove(subscribers, last.type).threw
        /\ typeRemove(subscribers, last.type).subs = subscribers)

C17_Witness ==
    /\ variant = "part_000"
    /\ last.op = "typeRemove"
    /\ last.type = "generic"
    /\ Length(subscribers) = 2
    /\ ListOf("1") = <<"B">>
    /\ ListOf("generic") = <<"A">>

\* C11: every instance has a registry of its own, created empty when the
\* instance is constructed: no call on the first instance changes the
\* registry seen through the second, and a newly constructed instance starts
\* with no message types.
C11_InstancesHavePrivateRegistries ==
    [][/\ second.live =>
            SubscribersOf(second', subscribers') =
                SubscribersOf(second, subscribers)
       /\ (~second.live /\ second'.live) =>
            SubscribersOf(second', subscribers') = NewSubscribers]_vars

\* The callbacks of a list that unsubscribe when invoked.
Unsubscribers(list) == {i \in 1..Len(list) : list[i] \in {"Once", "KickB"}}

\* The callbacks of a list that subscribe when invoked.
Subscribers(list) == {i \in 1..Len(list) : list[i] = "AddB"}

\* C14: a publish on T during which a callback unsubscribes itself or
\* another callback from T completes without error and invokes every
\* callback that was in T's sequence when the publish started, exactly once
\* and in order, as if it iterated over a snapshot of the sequence.
C14_PublishIteratesSnapshot ==
    (/\ last.op = "publish"
     /\ last.before.def
     /\ Unsubscribers(last.before.list) # {})
        => (/\ ~last.threw
            /\ CallbackSeq(last.calls) = last.before.list)

\* C18: a publish on T invokes as many callbacks as T's sequence held when
\* it started; a callback (B) that a subscriber (AddB) subscribes to T while
\* the publish is in flight is not invoked by that publish, and the next
\* publish on T invokes it after all the earlier subscribers.
C18_InFlightSubscribeWaits ==
    (/\ last.op = "publish"
     /\ last.before.def
     /\ Subscribers(last.before.list) # {}
     /\ Count(last.before.list, "B") = 0)
        => (/\ Len(last.calls) = Len(last.before.list)
            /\ Count(CallbackSeq(last.calls), "B") = 0
            /\ LET now == ListOf(last.type)
                   next == publish(subscribers, "hello", last.type, SourceObj)
               IN  Count(now, "B") > 0 =>
                        /\ SubSeq(now, 1, Len(last.before.list))
                                = last.before.list
                        /\ SubSeq(CallbackSeq(next.calls), 1, Len(now)) = now)

============================================================================
